---- MODULE Spec2Model ----
(***************************************************************************)
(* A model of bibtexsweeper.py: the rule tables of BibTexSweeperConfig,    *)
(* the transform passes, the validation passes, the author reducer and the *)
(* citation filter, applied to a collection of records in the order main() *)
(* calls them.                                                             *)
(*                                                                         *)
(* A Python str is a sequence of one-character strings, a Python dict is a *)
(* sequence of <<key, value>> pairs in insertion order, a Python list is a *)
(* sequence.                                                               *)
(***************************************************************************)
EXTENDS Integers, Sequences, FiniteSets, TLC

VARIABLES
    build,      \* "list": dict.items() is a copy (Python 2); "view": a live view (Python 3)
    config,     \* the parsed JSON configuration file given to load()
    cfg,        \* the class attributes of BibTexSweeperConfig
    bbl,        \* the \bibitem entries of the bbl file, in file order
    input,      \* db.entries as parsed from the bib file
    entries,    \* the working collection `entries` of main()
    prev,       \* `entries` as it was before the last call
    plan,       \* the calls still to make, in order
    last,       \* the call made last
    warnings,   \* the WARNING lines printed so far
    err         \* "none", or the exception that ended the run

vars == <<build, config, cfg, bbl, input, entries, prev, plan, last, warnings, err>>

---------------------------------------------------------------------------
(* Bounds of the model *)

MaxAliasEntries == 2
MaxAliasRules == 2
MaxOptFields == 3
MaxValueLen == 5
MaxOutputRules == 2
MaxFilterEntries == 2
MaxBblItems == 2
MaxBblEntries == 3
MaxAuthors == 3
MaxThreshold == 2
MaxReqEntries == 2
MaxTransformEntries == 2
MaxMainEntries == 2

---------------------------------------------------------------------------
(* Field names, type names and other literals of the program *)

K_ID == <<"I", "D">>
K_ENTRYTYPE == <<"E", "N", "T", "R", "Y", "T", "Y", "P", "E">>
K_title == <<"t", "i", "t", "l", "e">>
K_author == <<"a", "u", "t", "h", "o", "r">>
K_organization == <<"o", "r", "g", "a", "n", "i", "z", "a", "t", "i", "o", "n">>
K_institution == <<"i", "n", "s", "t", "i", "t", "u", "t", "i", "o", "n">>
K_pages == <<"p", "a", "g", "e", "s">>
K_year == <<"y", "e", "a", "r">>
K_booktitle == <<"b", "o", "o", "k", "t", "i", "t", "l", "e">>
T_all == <<"a", "l", "l">>
T_inproceedings == <<"i", "n", "p", "r", "o", "c", "e", "e", "d", "i", "n", "g", "s">>
OptPrefix == <<"o", "p", "t">>

(* Type names and identifiers used as data *)
T_article == <<"a", "r", "t">>
T_paper == <<"p", "a", "p">>
T_journal == <<"j", "o", "u">>
Id(n) == <<"x", CASE n = 1 -> "1" [] n = 2 -> "2" [] n = 3 -> "3" [] n = 4 -> "4" [] OTHER -> "9">>

---------------------------------------------------------------------------
(* Python str, list and dict operations *)

Range(s) == {s[i] : i \in 1..Len(s)}

InList(x, list) == \E i \in 1..Len(list) : list[i] = x

Slice(s, from, to) == [i \in 1..(to - from + 1) |-> s[from + i - 1]]

StartsWith(s, p) == Len(s) >= Len(p) /\ \A i \in 1..Len(p) : s[i] = p[i]

Has(entry, key) == \E i \in 1..Len(entry) : entry[i][1] = key

Get(entry, key) == entry[CHOOSE i \in 1..Len(entry) : entry[i][1] = key][2]

Put(entry, key, val) ==
    IF Has(entry, key)
    THEN [i \in 1..Len(entry) |-> IF entry[i][1] = key THEN <<key, val>> ELSE entry[i]]
    ELSE Append(entry, <<key, val>>)

Del(entry, key) == SelectSeq(entry, LAMBDA p : p[1] # key)

Fields(entry) == Range(entry)

Types(ents) == [i \in 1..Len(ents) |-> Get(ents[i], K_ENTRYTYPE)]

SeqsUpTo(S, n) == UNION {[1..k -> S] : k \in 0..n}

---------------------------------------------------------------------------
(* BibTexSweeperConfig *)

DefaultCfg ==
    [replace |-> <<>>, typeAliases |-> <<>>, outputElements |-> <<>>,
     protectStrings |-> <<>>, protectElements |-> <<>>,
     etAlTreshold |-> 0, etAlIeeeMode |-> 0]

---------------------------------------------------------------------------
(* removeAliases *)

removeAliasesFor(ents, bibType, aliases) ==
    [i \in 1..Len(ents) |->
        IF InList(Get(ents[i], K_ENTRYTYPE), aliases)
        THEN Put(ents[i], K_ENTRYTYPE, bibType)
        ELSE ents[i]]

RECURSIVE removeAliases(_, _)
removeAliases(ents, rules) ==
    IF rules = <<>> THEN ents
    ELSE removeAliases(removeAliasesFor(ents, rules[1][1], rules[1][2]), Tail(rules))

---------------------------------------------------------------------------
(* expandOptElements.  While a record is iterated it is held as the dict's *)
(* entry array: a deleted key leaves a Hole, a new key is appended.        *)

Hole == <<<<>>, <<>>>>

Compact(arr) == SelectSeq(arr, LAMBDA p : p # Hole)

Used(arr) == Len(Compact(arr))

IndexOf(arr, key) == CHOOSE i \in 1..Len(arr) : arr[i][1] = key

expandOptElement(arr, key) ==
    LET keyNoOpt == Slice(key, Len(OptPrefix) + 1, Len(key))
        moved == IF Has(arr, keyNoOpt)
                 THEN IF Len(Get(arr, keyNoOpt)) < Len(Get(arr, key))
                      THEN Put(arr, keyNoOpt, Get(arr, key))
                      ELSE arr
                 ELSE Append(arr, <<keyNoOpt, Get(arr, key)>>)
    IN  IF Len(keyNoOpt) = 0
        THEN [arr |-> arr, err |-> "AssertionError"]
        ELSE [arr |-> [moved EXCEPT ![IndexOf(arr, key)] = Hole], err |-> "none"]

(* for key, elem in entry.items(), items() being a list made before the loop *)
RECURSIVE expandOverList(_, _)
expandOverList(arr, keys) ==
    IF keys = <<>> THEN [arr |-> arr, err |-> "none"]
    ELSE IF StartsWith(Head(keys), OptPrefix)
         THEN LET r == expandOptElement(arr, Head(keys))
              IN  IF r.err # "none" THEN r ELSE expandOverList(r.arr, Tail(keys))
         ELSE expandOverList(arr, Tail(keys))

(* for key, elem in entry.items(), items() being a view of the dict: the   *)
(* iterator raises when the dict's size differs from the size it started   *)
(* with, and when it finds an entry after it has yielded that many.        *)
RECURSIVE expandOverView(_, _, _, _)
expandOverView(arr, i, remaining, used) ==
    LET rest == {j \in i..Len(arr) : arr[j] # Hole}
        j == CHOOSE m \in rest : \A o \in rest : m <= o
    IN  IF Used(arr) # used THEN [arr |-> arr, err |-> "RuntimeError"]
        ELSE IF rest = {} THEN [arr |-> arr, err |-> "none"]
        ELSE IF remaining = 0 THEN [arr |-> arr, err |-> "RuntimeError"]
        ELSE IF StartsWith(arr[j][1], OptPrefix)
             THEN LET r == expandOptElement(arr, arr[j][1])
                  IN  IF r.err # "none" THEN r
                      ELSE expandOverView(r.arr, j + 1, remaining - 1, used)
             ELSE expandOverView(arr, j + 1, remaining - 1, used)

expandOptEntry(entry, bld) ==
    LET r == IF bld = "list"
             THEN expandOverList(entry, [i \in 1..Len(entry) |-> entry[i][1]])
             ELSE expandOverView(entry, 1, Len(entry), Len(entry))
    IN  [entry |-> Compact(r.arr), err |-> r.err]

RECURSIVE expandOptElementsFrom(_, _, _)
expandOptElementsFrom(ents, i, bld) ==
    IF i > Len(ents) THEN [ents |-> ents, err |-> "none"]
    ELSE LET r == expandOptEntry(ents[i], bld)
             now == [ents EXCEPT ![i] = r.entry]
         IN  IF r.err # "none" THEN [ents |-> now, err |-> r.err]
             ELSE expandOptElementsFrom(now, i + 1, bld)

expandOptElements(ents, bld) == expandOptElementsFrom(ents, 1, bld)

---------------------------------------------------------------------------
(* Characters as the re module classifies them *)

Uppers == <<"A", "B", "C", "D", "E", "F", "G", "H", "I", "J", "K", "L", "M",
            "N", "O", "P", "Q", "R", "S", "T", "U", "V", "W", "X", "Y", "Z">>

Lowers == <<"a", "b", "c", "d", "e", "f", "g", "h", "i", "j", "k", "l", "m",
            "n", "o", "p", "q", "r", "s", "t", "u", "v", "w", "x", "y", "z">>

Digits == {"0", "1", "2", "3", "4", "5", "6", "7", "8", "9"}

IsAlnum(c) == c \in Range(Uppers) \/ c \in Range(Lowers) \/ c \in Digits

(* \w, and \W its complement *)
IsWord(c) == IsAlnum(c) \/ c = "_"

(* re.IGNORECASE compares the case-folded characters *)
Fold(c) == IF c \in Range(Uppers) THEN Lowers[CHOOSE i \in 1..Len(Uppers) : Uppers[i] = c] ELSE c

MatchesAt(val, at, pat) ==
    /\ at >= 1
    /\ at + Len(pat) - 1 <= Len(val)
    /\ \A i \in 1..Len(pat) : Fold(val[at + i - 1]) = Fold(pat[i])

(* The characters re.escape puts a backslash before: every character that  *)
(* is not alphanumeric (Python 2), or the ones special in a pattern.       *)
ReSpecial == {"(", ")", "[", "]", "{", "}", "?", "*", "+", "-", "|", "^", "$", "\\", ".", "&", "~", "#", " "}

RECURSIVE reEscape(_, _)
reEscape(string, bld) ==
    IF string = <<>> THEN <<>>
    ELSE (IF (bld = "list" /\ ~IsAlnum(Head(string))) \/ (bld = "view" /\ Head(string) \in ReSpecial)
          THEN <<"\\", Head(string)>>
          ELSE <<Head(string)>>) \o reEscape(Tail(string), bld)

(* What a replacement template made of re.escape's output expands to: an   *)
(* escaped backslash is one backslash; any other escaped character that is *)
(* no letter or digit is left as written, backslash included.              *)
RECURSIVE expandTemplate(_)
expandTemplate(t) ==
    IF t = <<>> THEN <<>>
    ELSE IF Head(t) = "\\" /\ Len(t) >= 2
         THEN (IF t[2] = "\\" THEN <<"\\">> ELSE <<"\\", t[2]>>) \o expandTemplate(Tail(Tail(t)))
         ELSE <<Head(t)>> \o expandTemplate(Tail(t))

---------------------------------------------------------------------------
(* protectStrings, on values of one line *)

\* re.sub of the pattern "any run, a non-word character, string, any run" by
\* group 1, string in braces, group 2: the greedy first run takes the longest
\* prefix that ends in a non-word character followed by string.
(* a non-greedy first run would stop at the first such prefix *)
protectSubLeftmost(value, string, bld) ==
    LET hits == {j \in 1..Len(value) : ~IsWord(value[j]) /\ MatchesAt(value, j + 1, string)}
        j == CHOOSE m \in hits : \A o \in hits : m <= o
    IN  IF hits = {} THEN value
        ELSE Slice(value, 1, j) \o <<"{">> \o expandTemplate(reEscape(string, bld)) \o <<"}">>
             \o Slice(value, j + Len(string) + 1, Len(value))

protectSub(value, string, bld) ==
    LET hits == {j \in 1..Len(value) : ~IsWord(value[j]) /\ MatchesAt(value, j + 1, string)}
        j == CHOOSE m \in hits : \A o \in hits : o <= m
    IN  IF hits = {} THEN value
        ELSE Slice(value, 1, j) \o <<"{">> \o expandTemplate(reEscape(string, bld)) \o <<"}">>
             \o Slice(value, j + Len(string) + 1, Len(value))

RECURSIVE protectStringsCb(_, _, _, _)
protectStringsCb(entry, elemKey, strings, bld) ==
    IF strings = <<>> THEN [entry |-> entry, err |-> "none"]
    ELSE IF ~Has(entry, elemKey) THEN [entry |-> entry, err |-> "KeyError"]
    ELSE protectStringsCb(Put(entry, elemKey, protectSub(Get(entry, elemKey), Head(strings), bld)),
                          elemKey, Tail(strings), bld)

(* iterRulesPerTypeAndKey, payload a dict: the callback once per field *)
RECURSIVE protectStringsFields(_, _, _)
protectStringsFields(entry, elemRules, bld) ==
    IF elemRules = <<>> THEN [entry |-> entry, err |-> "none"]
    ELSE LET r == protectStringsCb(entry, elemRules[1][1], elemRules[1][2], bld)
         IN  IF r.err # "none" THEN r ELSE protectStringsFields(r.entry, Tail(elemRules), bld)

RECURSIVE protectStringsEntry(_, _, _)
protectStringsEntry(entry, rules, bld) ==
    IF rules = <<>> THEN [entry |-> entry, err |-> "none"]
    ELSE IF Get(entry, K_ENTRYTYPE) # rules[1][1] /\ rules[1][1] # T_all
         THEN protectStringsEntry(entry, Tail(rules), bld)
         ELSE LET r == protectStringsFields(entry, rules[1][2], bld)
              IN  IF r.err # "none" THEN r ELSE protectStringsEntry(r.entry, Tail(rules), bld)

RECURSIVE protectStringsFrom(_, _, _, _)
protectStringsFrom(ents, i, rules, bld) ==
    IF i > Len(ents) THEN [ents |-> ents, err |-> "none"]
    ELSE LET r == protectStringsEntry(ents[i], rules, bld)
             now == [ents EXCEPT ![i] = r.entry]
         IN  IF r.err # "none" THEN [ents |-> now, err |-> r.err]
             ELSE protectStringsFrom(now, i + 1, rules, bld)

protectStrings(ents, rules, bld) == protectStringsFrom(ents, 1, rules, bld)

---------------------------------------------------------------------------
(* protectElements *)

RECURSIVE protectElementsCb(_, _)
protectElementsCb(entry, elementsToProtect) ==
    IF elementsToProtect = <<>> THEN entry
    ELSE LET elem == Head(elementsToProtect)
         IN  protectElementsCb(IF Has(entry, elem)
                               THEN Put(entry, elem, <<"{">> \o Get(entry, elem) \o <<"}">>)
                               ELSE entry,
                               Tail(elementsToProtect))

(* iterRulesPerTypeAndKey, payload a list: the callback once *)
RECURSIVE protectElementsEntry(_, _)
protectElementsEntry(entry, rules) ==
    IF rules = <<>> THEN entry
    ELSE IF Get(entry, K_ENTRYTYPE) # rules[1][1] /\ rules[1][1] # T_all
         THEN protectElementsEntry(entry, Tail(rules))
         ELSE protectElementsEntry(protectElementsCb(entry, rules[1][2]), Tail(rules))

protectElements(ents, rules) == [i \in 1..Len(ents) |-> protectElementsEntry(ents[i], rules)]

---------------------------------------------------------------------------
(* replace *)

(* rex.sub(repl, val), rex the escaped pattern compiled with IGNORECASE,   *)
(* repl holding no backslash                                               *)
RECURSIVE subAll(_, _, _)
subAll(val, pat, repl) ==
    IF pat = <<>>
    THEN (IF val = <<>> THEN repl ELSE repl \o <<Head(val)>> \o subAll(Tail(val), pat, repl))
    ELSE IF val = <<>> THEN <<>>
    ELSE IF MatchesAt(val, 1, pat)
         THEN repl \o subAll(Slice(val, Len(pat) + 1, Len(val)), pat, repl)
         ELSE <<Head(val)>> \o subAll(Tail(val), pat, repl)

(* the loop over pairs, inside the try: KeyError ends it, the assert does not *)
RECURSIVE replacePairs(_, _, _)
replacePairs(entry, key, pairs) ==
    IF pairs = <<>> THEN [entry |-> entry, err |-> "none"]
    ELSE IF Len(Head(pairs)) # 2 THEN [entry |-> entry, err |-> "AssertionError"]
    ELSE IF ~Has(entry, key) THEN [entry |-> entry, err |-> "none"]
    ELSE replacePairs(Put(entry, key, subAll(Get(entry, key), Head(pairs)[1], Head(pairs)[2])),
                      key, Tail(pairs))

RECURSIVE replaceInEntry(_, _)
replaceInEntry(entry, typeRules) ==
    IF typeRules = <<>> THEN [entry |-> entry, err |-> "none"]
    ELSE LET r == replacePairs(entry, typeRules[1][1], typeRules[1][2])
         IN  IF r.err # "none" THEN r ELSE replaceInEntry(r.entry, Tail(typeRules))

RECURSIVE replaceForType(_, _, _, _)
replaceForType(ents, i, bibType, typeRules) ==
    IF i > Len(ents) THEN [ents |-> ents, err |-> "none"]
    ELSE IF Get(ents[i], K_ENTRYTYPE) = bibType \/ bibType = T_all
         THEN LET r == replaceInEntry(ents[i], typeRules)
                  now == [ents EXCEPT ![i] = r.entry]
              IN  IF r.err # "none" THEN [ents |-> now, err |-> r.err]
                  ELSE replaceForType(now, i + 1, bibType, typeRules)
         ELSE replaceForType(ents, i + 1, bibType, typeRules)

RECURSIVE replace(_, _)
replace(ents, rules) ==
    IF rules = <<>> THEN [ents |-> ents, err |-> "none"]
    ELSE LET r == replaceForType(ents, 1, rules[1][1], rules[1][2])
         IN  IF r.err # "none" THEN r ELSE replace(r.ents, Tail(rules))

---------------------------------------------------------------------------
(* BibTexSweeperConfig.load and removeUnwantedElements *)

baseOutputElements == <<K_ID, K_ENTRYTYPE>>

(* load without the loop that extends the allow-lists *)
loadWithoutBase(file) == file

load(file) ==
    [file EXCEPT !.outputElements =
        [i \in 1..Len(file.outputElements) |->
            <<file.outputElements[i][1], file.outputElements[i][2] \o baseOutputElements>>]]

KeepAllowed(entry, allowedElements) == SelectSeq(entry, LAMBDA p : InList(p[1], allowedElements))

RECURSIVE removeUnwantedForType(_, _, _, _)
removeUnwantedForType(ents, i, bibType, allowedElements) ==
    IF i > Len(ents) THEN [ents |-> ents, err |-> "none"]
    ELSE IF ~Has(ents[i], K_ENTRYTYPE) THEN [ents |-> ents, err |-> "KeyError"]
    ELSE removeUnwantedForType(
            IF Get(ents[i], K_ENTRYTYPE) = bibType
            THEN [ents EXCEPT ![i] = KeepAllowed(ents[i], allowedElements)]
            ELSE ents,
            i + 1, bibType, allowedElements)

RECURSIVE removeUnwantedElements(_, _)
removeUnwantedElements(ents, rules) ==
    IF rules = <<>> THEN [ents |-> ents, err |-> "none"]
    ELSE LET r == removeUnwantedForType(ents, 1, rules[1][1], rules[1][2])
         IN  IF r.err # "none" THEN r ELSE removeUnwantedElements(r.ents, Tail(rules))

---------------------------------------------------------------------------
(* More str operations *)

IsSpace(c) == c \in {" ", "\t", "\n", "\r"}

ExactAt(val, at, sub) ==
    /\ at + Len(sub) - 1 <= Len(val)
    /\ \A i \in 1..Len(sub) : val[at + i - 1] = sub[i]

(* sub in val *)
Contains(val, sub) == \E at \in 1..(Len(val) + 1) : ExactAt(val, at, sub)

RECURSIVE Strip(_)
Strip(s) ==
    IF s = <<>> THEN s
    ELSE IF IsSpace(Head(s)) THEN Strip(Tail(s))
    ELSE IF IsSpace(s[Len(s)]) THEN Strip(Slice(s, 1, Len(s) - 1))
    ELSE s

(* val.split(sep), sep not empty *)
RECURSIVE SplitOn(_, _)
SplitOn(val, sep) ==
    LET ats == {at \in 1..Len(val) : ExactAt(val, at, sep)}
        at == CHOOSE m \in ats : \A o \in ats : m <= o
    IN  IF ats = {} THEN <<val>>
        ELSE <<Slice(val, 1, at - 1)>> \o SplitOn(Slice(val, at + Len(sep), Len(val)), sep)

(* val.split(): on runs of whitespace, no empty part *)
RECURSIVE SplitWsFrom(_, _, _)
SplitWsFrom(rest, word, acc) ==
    IF rest = <<>> THEN (IF word = <<>> THEN acc ELSE Append(acc, word))
    ELSE IF IsSpace(Head(rest))
         THEN SplitWsFrom(Tail(rest), <<>>, IF word = <<>> THEN acc ELSE Append(acc, word))
         ELSE SplitWsFrom(Tail(rest), Append(word, Head(rest)), acc)

SplitWs(val) == SplitWsFrom(val, <<>>, <<>>)

RECURSIVE Join(_, _)
Join(sep, list) ==
    IF list = <<>> THEN <<>>
    ELSE IF Len(list) = 1 THEN list[1]
    ELSE list[1] \o sep \o Join(sep, Tail(list))

(* val.replace(old, new), old one character *)
RECURSIVE ReplaceChar(_, _, _)
ReplaceChar(val, old, new) ==
    IF val = <<>> THEN <<>>
    ELSE (IF Head(val) = old THEN new ELSE <<Head(val)>>) \o ReplaceChar(Tail(val), old, new)

---------------------------------------------------------------------------
(* checkRequired, checkEtAl, checkBookTitleYear *)

Either(names) == [tuple |-> TRUE, names |-> names]

Single(name) == [tuple |-> FALSE, names |-> <<name>>]

requiredBase == <<Either(<<K_organization, K_author, K_institution>>), Single(K_title)>>

requiredInproceedings == requiredBase \o <<Single(K_pages), Single(K_year), Single(K_booktitle)>>

requiredFor(bibType) == IF bibType = T_inproceedings THEN requiredInproceedings ELSE requiredBase

RequiredWarning(entry, req) == [kind |-> "required", id |-> Get(entry, K_ID), req |-> req]

(* the message of a missing single field formats entry['title'] *)
RECURSIVE checkRequiredWithList(_, _, _)
checkRequiredWithList(entry, required, warns) ==
    IF required = <<>> THEN [warns |-> warns, err |-> "none"]
    ELSE LET req == Head(required)
         IN  IF req.tuple
             THEN checkRequiredWithList(entry, Tail(required),
                      IF \A i \in 1..Len(req.names) : ~Has(entry, req.names[i])
                      THEN Append(warns, RequiredWarning(entry, req))
                      ELSE warns)
             ELSE IF Has(entry, req.names[1])
                  THEN checkRequiredWithList(entry, Tail(required), warns)
                  ELSE IF ~Has(entry, K_title)
                       THEN [warns |-> warns, err |-> "KeyError"]
                       ELSE checkRequiredWithList(entry, Tail(required),
                                Append(warns, RequiredWarning(entry, req)))

RECURSIVE checkRequiredFrom(_, _, _)
checkRequiredFrom(ents, i, warns) ==
    IF i > Len(ents) THEN [warns |-> warns, err |-> "none"]
    ELSE LET r == checkRequiredWithList(ents[i], requiredFor(Get(ents[i], K_ENTRYTYPE)), warns)
         IN  IF r.err # "none" THEN r ELSE checkRequiredFrom(ents, i + 1, r.warns)

checkRequired(ents, warns) == checkRequiredFrom(ents, 1, warns)

EtAl == <<"e", "t", " ", "a", "l", ".">>

RECURSIVE checkEtAlFrom(_, _, _)
checkEtAlFrom(ents, i, warns) ==
    IF i > Len(ents) THEN warns
    ELSE checkEtAlFrom(ents, i + 1,
            IF Has(ents[i], K_author) /\ Contains(Get(ents[i], K_author), EtAl)
            THEN Append(warns, [kind |-> "etal", id |-> Get(ents[i], K_ID)])
            ELSE warns)

checkEtAl(ents, warns) == checkEtAlFrom(ents, 1, warns)

(* an apostrophe and two digits, or four digits, anywhere in the title *)
QuotedYear(title) ==
    \E i \in 1..(Len(title) - 2) : title[i] = "'" /\ title[i + 1] \in Digits /\ title[i + 2] \in Digits

FullYear(title) == \E i \in 1..(Len(title) - 3) : \A k \in 0..3 : title[i + k] \in Digits

RECURSIVE checkBookTitleYearFrom(_, _, _)
checkBookTitleYearFrom(ents, i, warns) ==
    IF i > Len(ents) THEN warns
    ELSE checkBookTitleYearFrom(ents, i + 1,
            IF Has(ents[i], K_booktitle)
               /\ (QuotedYear(Get(ents[i], K_booktitle)) \/ FullYear(Get(ents[i], K_booktitle)))
            THEN Append(warns, [kind |-> "booktitle", id |-> Get(ents[i], K_ID),
                                hint |-> IF Has(ents[i], K_year) THEN "check" ELSE "free"])
            ELSE warns)

checkBookTitleYear(ents, warns) == checkBookTitleYearFrom(ents, 1, warns)

---------------------------------------------------------------------------
(* getBblEntries and filterEntriesWithBbl.  The bbl file is the sequence   *)
(* of its \bibitem commands, each with a label in brackets or without.     *)

BblIds(items, form) ==
    LET picked == SelectSeq(items, LAMBDA it : it.form = form)
    IN  [i \in 1..Len(picked) |-> picked[i].id]

getBblEntries(bblFile) == BblIds(bblFile, "label") \o BblIds(bblFile, "bare")

(* a filter that walks the citations instead of the records *)
RECURSIVE filterEntriesInCitationOrder(_, _)
filterEntriesInCitationOrder(ents, bblEntries) ==
    IF bblEntries = <<>> THEN <<>>
    ELSE SelectSeq(ents, LAMBDA e : Get(e, K_ID) = Head(bblEntries))
         \o filterEntriesInCitationOrder(ents, Tail(bblEntries))

RECURSIVE filterEntries(_, _)
filterEntries(ents, bblEntries) ==
    IF ents = <<>> THEN <<>>
    ELSE (IF InList(Get(Head(ents), K_ID), bblEntries) THEN <<Head(ents)>> ELSE <<>>)
         \o filterEntries(Tail(ents), bblEntries)

filterEntriesWithBbl(ents, bblFile) == filterEntries(ents, getBblEntries(bblFile))

---------------------------------------------------------------------------
(* applyEtAlTreshold, with bibtexparser's author customization *)

And == <<" ", "a", "n", "d", " ">>

Juniors == {<<"j", "n", "r">>, <<"j", "r">>, <<"j", "u", "n", "i", "o", "r">>}

EtAlMarker == <<"~", "{", "\\", "i", "t", "{", "e", "t", " ", "a", "l", ".", "}", "}", ",">>

(* getnames on one name: the surname and the first names as first split *)
surnameOf(namestring) ==
    IF Contains(namestring, <<",">>)
    THEN Strip(SplitOn(namestring, <<",">>)[1])
    ELSE SplitWs(namestring)[Len(SplitWs(namestring))]

firstnamesOf(namestring) ==
    IF Contains(namestring, <<",">>)
    THEN SplitWs(SplitOn(namestring, <<",">>)[2])
    ELSE Slice(SplitWs(namestring), 1, Len(SplitWs(namestring)) - 1)

(* a junior suffix taken for the surname gives way to the last first name *)
tidySurname(surname, firstnames) ==
    IF surname \in Juniors
    THEN [surname |-> firstnames[Len(firstnames)],
          firstnames |-> Slice(firstnames, 1, Len(firstnames) - 1)]
    ELSE [surname |-> surname, firstnames |-> firstnames]

formatName(tidy) == tidy.surname \o <<",", " ">> \o Join(<<" ">>, tidy.firstnames)

tidyName(namestring) ==
    IF surnameOf(namestring) \in Juniors /\ firstnamesOf(namestring) = <<>>
    THEN [name |-> <<>>, err |-> "IndexError"]
    ELSE [name |-> formatName(tidySurname(surnameOf(namestring), firstnamesOf(namestring))),
          err |-> "none"]

RECURSIVE getnames(_)
getnames(names) ==
    IF names = <<>> THEN [names |-> <<>>, err |-> "none"]
    ELSE LET namestring == Strip(Head(names))
             rest == getnames(Tail(names))
             one == tidyName(namestring)
         IN  IF namestring = <<>> THEN rest
             ELSE IF one.err # "none" THEN [names |-> <<>>, err |-> one.err]
             ELSE IF rest.err # "none" THEN rest
             ELSE [names |-> <<one.name>> \o rest.names, err |-> "none"]

(* the list author() leaves in record["author"], the field being non-empty *)
authorNames(value) ==
    LET parts == SplitOn(ReplaceChar(value, "\n", <<" ">>), And)
    IN  getnames([i \in 1..Len(parts) |-> Strip(parts[i])])

(* the retained count with the IEEE mode ignored *)
remainingLengthIgnoringIeee(etAlTreshold, etAlIeeeMode) == etAlTreshold

remainingLengthOf(etAlTreshold, etAlIeeeMode) == IF etAlIeeeMode = 1 THEN 1 ELSE etAlTreshold

(* a Python list compared with an int: never equal *)
ListEqualsInt(list, n) == FALSE

chopAuthors(authors, etAlTreshold, remainingLength) ==
    IF Len(authors) > etAlTreshold
    THEN [Slice(authors, 1, remainingLength) EXCEPT
            ![remainingLength] = ReplaceChar(@, ",", EtAlMarker)]
    ELSE authors

wrapSingle(authors, nAuthors) ==
    IF nAuthors = 1 /\ ListEqualsInt(SplitOn(authors[1], <<" ">>), 1)
    THEN [authors EXCEPT ![1] = <<"{">> \o @ \o <<"}">>]
    ELSE authors

applyEtAlEntry(entry, etAlTreshold, remainingLength) ==
    IF ~Has(entry, K_author) THEN [entry |-> entry, err |-> "none"]
    ELSE IF Get(entry, K_author) = <<>> THEN [entry |-> Del(entry, K_author), err |-> "none"]
    ELSE LET parsed == authorNames(Get(entry, K_author))
             chopped == chopAuthors(parsed.names, etAlTreshold, remainingLength)
             wrapped == wrapSingle(chopped, Len(parsed.names))
         IN  IF parsed.err # "none" THEN [entry |-> entry, err |-> parsed.err]
             ELSE [entry |-> Put(entry, K_author, Join(And, wrapped)), err |-> "none"]

RECURSIVE applyEtAlFrom(_, _, _, _)
applyEtAlFrom(ents, i, etAlTreshold, remainingLength) ==
    IF i > Len(ents) THEN [ents |-> ents, err |-> "none"]
    ELSE LET r == applyEtAlEntry(ents[i], etAlTreshold, remainingLength)
             now == [ents EXCEPT ![i] = r.entry]
         IN  IF r.err # "none" THEN [ents |-> now, err |-> r.err]
             ELSE applyEtAlFrom(now, i + 1, etAlTreshold, remainingLength)

(* the reducer without its early return: threshold 0 rewrites the authors too *)
applyEtAlWithoutGuard(ents, etAlTreshold, etAlIeeeMode) ==
    applyEtAlFrom(ents, 1, IF etAlTreshold = 0 THEN Len(ents) + MaxAuthors + 1 ELSE etAlTreshold,
                  remainingLengthOf(etAlTreshold, etAlIeeeMode))

applyEtAlTreshold(ents, etAlTreshold, etAlIeeeMode) ==
    IF etAlTreshold = 0 THEN [ents |-> ents, err |-> "none"]
    ELSE applyEtAlFrom(ents, 1, etAlTreshold, remainingLengthOf(etAlTreshold, etAlIeeeMode))

---------------------------------------------------------------------------
(* The calls of main() *)

Step(name) == plan # <<>> /\ Head(plan) = name /\ err = "none"

Done(name, ents, e, warns) ==
    /\ entries' = ents
    /\ prev' = entries
    /\ err' = e
    /\ warnings' = warns
    /\ plan' = Tail(plan)
    /\ last' = name
    /\ UNCHANGED <<build, config, bbl, input>>

RemoveAliases ==
    /\ Step("removeAliases")
    /\ Done("removeAliases", removeAliases(entries, cfg.typeAliases), "none", warnings)
    /\ UNCHANGED cfg

ExpandOptElements ==
    /\ Step("expandOptElements")
    /\ LET r == expandOptElements(entries, build)
       IN  Done("expandOptElements", r.ents, r.err, warnings)
    /\ UNCHANGED cfg

Load ==
    /\ Step("load")
    /\ cfg' = load(config)
    /\ Done("load", entries, "none", warnings)

Replace ==
    /\ Step("replace")
    /\ LET r == replace(entries, cfg.replace)
       IN  Done("replace", r.ents, r.err, warnings)
    /\ UNCHANGED cfg

RemoveUnwantedElements ==
    /\ Step("removeUnwantedElements")
    /\ LET r == removeUnwantedElements(entries, cfg.outputElements)
       IN  Done("removeUnwantedElements", r.ents, r.err, warnings)
    /\ UNCHANGED cfg

ProtectStrings ==
    /\ Step("protectStrings")
    /\ LET r == protectStrings(entries, cfg.protectStrings, build)
       IN  Done("protectStrings", r.ents, r.err, warnings)
    /\ UNCHANGED cfg

ProtectElements ==
    /\ Step("protectElements")
    /\ Done("protectElements", protectElements(entries, cfg.protectElements), "none", warnings)
    /\ UNCHANGED cfg

FilterEntriesWithBbl ==
    /\ Step("filterEntriesWithBbl")
    /\ Done("filterEntriesWithBbl", filterEntriesWithBbl(entries, bbl), "none", warnings)
    /\ UNCHANGED cfg

CheckRequired ==
    /\ Step("checkRequired")
    /\ LET r == checkRequired(entries, warnings)
       IN  Done("checkRequired", entries, r.err, r.warns)
    /\ UNCHANGED cfg

CheckEtAl ==
    /\ Step("checkEtAl")
    /\ Done("checkEtAl", entries, "none", checkEtAl(entries, warnings))
    /\ UNCHANGED cfg

CheckBookTitleYear ==
    /\ Step("checkBookTitleYear")
    /\ Done("checkBookTitleYear", entries, "none", checkBookTitleYear(entries, warnings))
    /\ UNCHANGED cfg

ApplyEtAlTreshold ==
    /\ Step("applyEtAlTreshold")
    /\ LET r == applyEtAlTreshold(entries, cfg.etAlTreshold, cfg.etAlIeeeMode)
       IN  Done("applyEtAlTreshold", r.ents, r.err, warnings)
    /\ UNCHANGED cfg

Start(thePlan) ==
    /\ plan = thePlan
    /\ entries = input
    /\ prev = input
    /\ last = "start"
    /\ warnings = <<>>
    /\ err = "none"

---------------------------------------------------------------------------
(* removeAliases called twice on a collection, for every small alias table *)

AliasTypes == {T_article, T_paper, T_journal}

AliasLists == {<<T_article>>, <<T_paper>>, <<T_journal>>, <<T_article, T_paper>>,
               <<T_paper, T_journal>>, <<T_article, T_journal>>}

AliasTables == SeqsUpTo(AliasTypes \X AliasLists, MaxAliasRules)

AliasRecord(i, t) == <<<<K_ENTRYTYPE, t>>, <<K_ID, Id(i)>>>>

AliasInputs ==
    {[i \in 1..n |-> AliasRecord(i, ts[i])] : ts \in [1..MaxAliasEntries -> AliasTypes],
                                                n \in 0..MaxAliasEntries}

InitAliases ==
    /\ build \in {"list", "view"}
    /\ config = DefaultCfg
    /\ cfg \in {[DefaultCfg EXCEPT !.typeAliases = t] : t \in AliasTables}
    /\ bbl = <<>>
    /\ input \in AliasInputs
    /\ Start(<<"removeAliases", "removeAliases">>)

NextAliases == RemoveAliases

SpecAliases == InitAliases /\ [][NextAliases]_vars

\* C3: running removeAliases twice yields the same ENTRYTYPE for every record
\* as running it once, for every alias table.
C3_AliasIdempotent ==
    (plan = <<>> /\ last = "removeAliases") => Types(entries) = Types(prev)

---------------------------------------------------------------------------
(* expandOptElements called on one record with shadow fields *)

K_opttitle == OptPrefix \o K_title
K_optopttitle == OptPrefix \o K_opttitle
K_optyear == OptPrefix \o K_year

OptKeys == {K_title, K_opttitle, K_optopttitle, K_optyear}

OptValues == {<<"a">>, <<"a", "b">>}

Injective(f) == \A i, j \in DOMAIN f : i # j => f[i] # f[j]

OptRecords ==
    {<<<<K_ID, Id(1)>>, <<K_ENTRYTYPE, T_article>>>> \o [i \in 1..Len(ks) |-> <<ks[i], vs[i]>>] :
        <<ks, vs>> \in {p \in SeqsUpTo(OptKeys, MaxOptFields) \X SeqsUpTo(OptValues, MaxOptFields) :
                            Len(p[1]) = Len(p[2]) /\ Injective(p[1])}}

InitExpand ==
    /\ build \in {"list", "view"}
    /\ config = DefaultCfg
    /\ cfg = DefaultCfg
    /\ bbl = <<>>
    /\ input \in {<<r>> : r \in OptRecords}
    /\ Start(<<"expandOptElements">>)

NextExpand == ExpandOptElements

SpecExpand == InitExpand /\ [][NextExpand]_vars

ShadowKeys(entry) == {entry[i][1] : i \in {j \in 1..Len(entry) : StartsWith(entry[j][1], OptPrefix)}}

Expanded(before, after) ==
    /\ ShadowKeys(after) = {}
    /\ \A key \in ShadowKeys(before) :
          LET x == Slice(key, Len(OptPrefix) + 1, Len(key))
          IN  Len(x) > 0 =>
                /\ Has(after, x)
                /\ Get(after, x) = IF ~Has(before, x) \/ Len(Get(before, x)) < Len(Get(before, key))
                                   THEN Get(before, key)
                                   ELSE Get(before, x)

\* C9: after expandOptElements the call has completed, no record has a field
\* whose name starts with 'opt', and for every shadow field opt+X the field X
\* holds the shadow value if X was absent or strictly shorter, else its own.
C9_ShadowRemovedLongerKept ==
    last = "expandOptElements" =>
        /\ err = "none"
        /\ \A i \in 1..Len(entries) : Expanded(prev[i], entries[i])

---------------------------------------------------------------------------
(* protectStrings called on one record, for every short title *)

ProtectAlphabet == {" ", "A", "a", "+"}

ProtectStringPool == {<<"A">>, <<"A", "a">>, <<"A", "+">>}

ProtectRecord(title) == <<<<K_ID, Id(1)>>, <<K_ENTRYTYPE, T_article>>, <<K_title, title>>>>

InitProtect ==
    /\ build \in {"list", "view"}
    /\ config = DefaultCfg
    /\ cfg \in {[DefaultCfg EXCEPT !.protectStrings = <<<<t, <<<<K_title, <<str>>>>>>>>>>] :
                    t \in {T_article, T_all}, str \in ProtectStringPool}
    /\ bbl = <<>>
    /\ input \in {<<ProtectRecord(v)>> : v \in SeqsUpTo(ProtectAlphabet, MaxValueLen)}
    /\ Start(<<"protectStrings">>)

NextProtect == ProtectStrings

SpecProtect == InitProtect /\ [][NextProtect]_vars

TheString == cfg.protectStrings[1][2][1][2][1]

WordOnly(str) == \A i \in 1..Len(str) : IsWord(str[i])

(* where an occurrence of str starts right after a non-word character *)
Occurrences(value, str) ==
    {at \in 2..Len(value) : ~IsWord(value[at - 1]) /\ MatchesAt(value, at, str)}

WrappedAt(value, str, at) ==
    Slice(value, 1, at - 1) \o <<"{">> \o str \o <<"}">> \o Slice(value, at + Len(str), Len(value))

ProtectedAt(rightmost) ==
    (last = "protectStrings" /\ WordOnly(TheString)) =>
        /\ err = "none"
        /\ LET before == Get(prev[1], K_title)
               after == Get(entries[1], K_title)
               occ == Occurrences(before, TheString)
               at == IF rightmost
                     THEN CHOOSE m \in occ : \A o \in occ : o <= m
                     ELSE CHOOSE m \in occ : \A o \in occ : m <= o
           IN  after = IF occ = {} THEN before ELSE WrappedAt(before, TheString, at)

---------------------------------------------------------------------------
(* load, then removeUnwantedElements *)

FilterTypes == {T_article, T_paper}

AllowLists == {<<>>, <<K_title>>, <<K_ID, K_year>>}

OutputTables == SeqsUpTo(FilterTypes \X AllowLists, MaxOutputRules)

FilterRecord(i, t, withYear) ==
    <<<<K_ENTRYTYPE, t>>, <<K_title, <<"T">>>>, <<K_ID, Id(i)>>>>
        \o (IF withYear THEN <<<<K_year, <<"1">>>>>> ELSE <<>>)

FilterInputs ==
    {[i \in 1..n |-> FilterRecord(i, ts[i], ys[i])] :
        ts \in [1..MaxFilterEntries -> FilterTypes],
        ys \in [1..MaxFilterEntries -> BOOLEAN],
        n \in 0..MaxFilterEntries}

InitFilterFields ==
    /\ build = "view"
    /\ config \in {[DefaultCfg EXCEPT !.outputElements = t] : t \in OutputTables}
    /\ cfg = DefaultCfg
    /\ bbl = <<>>
    /\ input \in FilterInputs
    /\ Start(<<"load", "removeUnwantedElements">>)

NextFilterFields == Load \/ RemoveUnwantedElements

SpecFilterFields == InitFilterFields /\ [][NextFilterFields]_vars

\* C2: after removeUnwantedElements, run on a loaded configuration, every
\* record still has its ID and ENTRYTYPE fields with their previous values,
\* even if the configured allow-list of its type omits them.
C2_IdAndTypeKept ==
    last = "removeUnwantedElements" =>
        /\ err = "none"
        /\ Len(entries) = Len(prev)
        /\ \A i \in 1..Len(prev) : \A key \in {K_ID, K_ENTRYTYPE} :
              Has(entries[i], key) /\ Get(entries[i], key) = Get(prev[i], key)

C2_Witness ==
    /\ last = "removeUnwantedElements"
    /\ \E i \in 1..Len(prev) : \E r \in 1..Len(config.outputElements) :
          /\ config.outputElements[r][1] = Get(prev[i], K_ENTRYTYPE)
          /\ ~InList(K_ID, config.outputElements[r][2])
          /\ ~InList(K_ENTRYTYPE, config.outputElements[r][2])
          /\ entries[i] # prev[i]
          /\ Has(entries[i], K_ID)

---------------------------------------------------------------------------
(* filterEntriesWithBbl *)

BblRecord(i) == <<<<K_ENTRYTYPE, T_article>>, <<K_ID, Id(i)>>>>

BblIdNumbers == 1..3

BblItems == {[form |-> f, id |-> Id(i)] : f \in {"label", "bare"}, i \in BblIdNumbers}

InitBbl ==
    /\ build = "view"
    /\ config = DefaultCfg
    /\ cfg = DefaultCfg
    /\ bbl \in SeqsUpTo(BblItems, MaxBblItems)
    /\ input \in SeqsUpTo({BblRecord(i) : i \in BblIdNumbers}, MaxBblEntries)
    /\ Start(<<"filterEntriesWithBbl">>)

NextBbl == FilterEntriesWithBbl

SpecBbl == InitBbl /\ [][NextBbl]_vars

Cited == {bbl[i].id : i \in 1..Len(bbl)}

\* C8: filterEntriesWithBbl returns exactly the records whose ID is cited, in
\* the input's relative order, whatever the order of the citations.
C8_FilterKeepsOrder ==
    last = "filterEntriesWithBbl" =>
        LET kept == {i \in 1..Len(prev) : Get(prev[i], K_ID) \in Cited}
        IN  /\ Len(entries) = Cardinality(kept)
            /\ \A i \in kept : entries[Cardinality({k \in kept : k <= i})] = prev[i]

C8_Witness ==
    /\ last = "filterEntriesWithBbl"
    /\ Len(prev) = 3 /\ Len(entries) = 2 /\ Len(bbl) = 2
    /\ bbl[1].id = Get(entries[2], K_ID)
    /\ bbl[2].id = Get(entries[1], K_ID)
    /\ entries[1] # entries[2]

---------------------------------------------------------------------------
(* applyEtAlTreshold called on one record *)

NamePool == {<<"A", ",", " ", "B">>, <<"C", " ", "D">>, <<"E">>}

EtAlRecord(author) == <<<<K_ID, Id(1)>>, <<K_ENTRYTYPE, T_article>>, <<K_author, author>>>>

InitEtAl ==
    /\ build = "view"
    /\ config = DefaultCfg
    /\ cfg \in {[DefaultCfg EXCEPT !.etAlTreshold = t, !.etAlIeeeMode = m] :
                    t \in 0..MaxThreshold, m \in {0, 1}}
    /\ bbl = <<>>
    /\ input \in {<<EtAlRecord(Join(And, names))>> : names \in SeqsUpTo(NamePool, MaxAuthors)}
    /\ Start(<<"applyEtAlTreshold">>)

NextEtAl == ApplyEtAlTreshold

SpecEtAl == InitEtAl /\ [][NextEtAl]_vars

MarkerText == <<"~", "{", "\\", "i", "t", "{", "e", "t", " ", "a", "l", ".", "}", "}">>

(* marked is name with the marker put somewhere inside it *)
Marked(marked, name) ==
    \E k \in 0..Len(name) :
        marked = Slice(name, 1, k) \o MarkerText \o Slice(name, k + 1, Len(name))

\* C6: for a threshold t > 0 and a record whose author field parses into n
\* authors, if n > t the author list is the first r authors in order (r = t,
\* or 1 in IEEE mode) with the et al. marker in the last one; otherwise all n
\* authors are kept in order and no marker is added.
C6_Truncation ==
    (last = "applyEtAlTreshold" /\ cfg.etAlTreshold > 0 /\ Get(prev[1], K_author) # <<>>) =>
        LET t == cfg.etAlTreshold
            r == IF cfg.etAlIeeeMode = 1 THEN 1 ELSE t
            parsed == authorNames(Get(prev[1], K_author)).names
            n == Len(parsed)
            out == SplitOn(Get(entries[1], K_author), And)
        IN  /\ err = "none"
            /\ n > t => /\ Len(out) = r
                        /\ \A i \in 1..(r - 1) : out[i] = parsed[i]
                        /\ Marked(out[r], parsed[r])
            /\ n <= t => /\ out = parsed
                         /\ ~Contains(Get(entries[1], K_author), EtAl)

C6_Witness ==
    /\ last = "applyEtAlTreshold"
    /\ cfg.etAlTreshold = 2 /\ cfg.etAlIeeeMode = 1
    /\ Len(authorNames(Get(prev[1], K_author)).names) = 3
    /\ Len(SplitOn(Get(entries[1], K_author), And)) = 1
    /\ Contains(Get(entries[1], K_author), MarkerText)

\* C10: for a threshold t > 0, when exactly one author remains and the name
\* is a single token with no space, the author field is written back wrapped
\* in braces.
C10_SingleAuthorWrapped ==
    (/\ last = "applyEtAlTreshold"
     /\ cfg.etAlTreshold > 0
     /\ Get(prev[1], K_author) # <<>>
     /\ Len(SplitOn(Get(prev[1], K_author), And)) = 1
     /\ ~Contains(Get(prev[1], K_author), <<" ">>)) =>
        LET out == Get(entries[1], K_author)
        IN  Len(out) >= 2 /\ out[1] = "{" /\ out[Len(out)] = "}"

---------------------------------------------------------------------------
(* checkRequired *)

ReqFields == <<K_author, K_title, K_pages, K_year>>

ReqRecord(i, t, present) ==
    <<<<K_ENTRYTYPE, t>>, <<K_ID, Id(i)>>>>
        \o [k \in 1..Len(SelectSeq(ReqFields, LAMBDA f : f \in present)) |->
                <<SelectSeq(ReqFields, LAMBDA f : f \in present)[k], <<"v">>>>]

ReqInputs ==
    {[i \in 1..n |-> ReqRecord(i, ts[i], ps[i])] :
        ts \in [1..MaxReqEntries -> {T_article, T_inproceedings}],
        ps \in [1..MaxReqEntries -> SUBSET Range(ReqFields)],
        n \in 0..MaxReqEntries}

InitRequired ==
    /\ build = "view"
    /\ config = DefaultCfg
    /\ cfg = DefaultCfg
    /\ bbl = <<>>
    /\ input \in ReqInputs
    /\ Start(<<"checkRequired">>)

NextRequired == CheckRequired

SpecRequired == InitRequired /\ [][NextRequired]_vars

Satisfied(entry, req) == \E k \in 1..Len(req.names) : Has(entry, req.names[k])

\* C5: checkRequired processes every record to the end, changes none, and
\* prints for each record exactly one warning per required specifier that is
\* not satisfied and none for a satisfied one, also when 'title' is missing.
C5_OneWarningPerMissing ==
    last = "checkRequired" =>
        /\ err = "none"
        /\ entries = prev
        /\ \A i \in 1..Len(entries) :
              LET required == requiredFor(Get(entries[i], K_ENTRYTYPE))
              IN  \A q \in 1..Len(required) :
                      Cardinality({w \in 1..Len(warnings) :
                                      /\ warnings[w].id = Get(entries[i], K_ID)
                                      /\ warnings[w].req = required[q]})
                        = IF Satisfied(entries[i], required[q]) THEN 0 ELSE 1

---------------------------------------------------------------------------
(* The transform passes, every rule naming the field 'year' *)

YearReplace(t) == <<<<t, <<<<K_year, <<<<<<"1">>, <<"2">>>>>>>>>>>>>>

YearProtectStrings(t) == <<<<t, <<<<K_year, <<<<"1">>>>>>>>>>>>

YearProtectElements(t) == <<<<t, <<K_year>>>>>>

AllowEverything == <<<<T_article, <<K_title, K_year, K_author, K_ID, K_ENTRYTYPE>>>>>>

TransformRecord(i, t, withYear, withAuthor) ==
    <<<<K_ENTRYTYPE, t>>, <<K_ID, Id(i)>>, <<K_title, <<"T", " ", "1">>>>>>
        \o (IF withYear THEN <<<<K_year, <<"1">>>>>> ELSE <<>>)
        \o (IF withAuthor THEN <<<<K_author, <<"C", " ", "D">>>>>> ELSE <<>>)

TransformInputs ==
    {[i \in 1..n |-> TransformRecord(i, ts[i], ys[i], as[i])] :
        ts \in [1..MaxTransformEntries -> {T_article, T_paper}],
        ys \in [1..MaxTransformEntries -> BOOLEAN],
        as \in [1..MaxTransformEntries -> BOOLEAN],
        n \in 0..MaxTransformEntries}

InitTransforms ==
    /\ build = "view"
    /\ config = DefaultCfg
    /\ cfg \in {[replace |-> rp, typeAliases |-> <<>>, outputElements |-> oe,
                 protectStrings |-> ps, protectElements |-> pe,
                 etAlTreshold |-> t, etAlIeeeMode |-> 0] :
                    rp \in {<<>>, YearReplace(T_article), YearReplace(T_all)},
                    oe \in {<<>>, AllowEverything},
                    ps \in {<<>>, YearProtectStrings(T_article), YearProtectStrings(T_all)},
                    pe \in {<<>>, YearProtectElements(T_article), YearProtectElements(T_all)},
                    t \in {0, 1}}
    /\ bbl = <<>>
    /\ input \in TransformInputs
    /\ Start(<<"replace", "removeUnwantedElements", "protectStrings", "protectElements",
               "applyEtAlTreshold">>)

NextTransforms ==
    Replace \/ RemoveUnwantedElements \/ ProtectStrings \/ ProtectElements \/ ApplyEtAlTreshold

SpecTransforms == InitTransforms /\ [][NextTransforms]_vars

\* C1: every transform pass treats a missing field as 'rule does not apply':
\* no pass raises an error, and a record that lacks the field the rules name
\* (and the author field the reducer reads) is left unchanged.
C1_MissingFieldSkipped ==
    /\ err = "none"
    /\ \A i \in 1..Len(entries) :
          (~Has(input[i], K_year) /\ ~Has(input[i], K_author)) => entries[i] = input[i]

---------------------------------------------------------------------------
(* main(), given an empty configuration file and no bbl file *)

BookTitle == <<"P", "'", "9", "5">>

MainRecord(i, t, present) ==
    <<<<K_ENTRYTYPE, t>>, <<K_ID, Id(i)>>>>
        \o (IF K_opttitle \in present THEN <<<<K_opttitle, <<"T", "i">>>>>> ELSE <<>>)
        \o (IF K_title \in present THEN <<<<K_title, <<"T">>>>>> ELSE <<>>)
        \o (IF K_author \in present THEN <<<<K_author, <<"C", " ", "D">> \o And \o <<"E">>>>>> ELSE <<>>)
        \o (IF t = T_inproceedings THEN <<<<K_booktitle, BookTitle>>>> ELSE <<>>)

MainInputs ==
    {[i \in 1..n |-> MainRecord(i, ts[i], ps[i])] :
        ts \in [1..MaxMainEntries -> {T_article, T_inproceedings}],
        ps \in [1..MaxMainEntries -> SUBSET {K_opttitle, K_title, K_author}],
        n \in 0..MaxMainEntries}

MainPlan ==
    <<"load", "removeAliases", "expandOptElements", "replace", "removeUnwantedElements",
      "protectStrings", "protectElements", "checkRequired", "checkEtAl", "checkBookTitleYear",
      "applyEtAlTreshold">>

Init ==
    /\ build \in {"list", "view"}
    /\ config = DefaultCfg
    /\ cfg = DefaultCfg
    /\ bbl = <<>>
    /\ input \in MainInputs
    /\ Start(MainPlan)

Next ==
    \/ Load
    \/ RemoveAliases
    \/ ExpandOptElements
    \/ Replace
    \/ RemoveUnwantedElements
    \/ ProtectStrings
    \/ ProtectElements
    \/ CheckRequired
    \/ CheckEtAl
    \/ CheckBookTitleYear
    \/ ApplyEtAlTreshold

Spec == Init /\ [][Next]_vars

SameCollection(a, b) ==
    /\ Len(a) = Len(b)
    /\ \A i \in 1..Len(a) : Fields(a[i]) = Fields(b[i])

NoShadowField(ents) ==
    \A i \in 1..Len(ents) : \A k \in 1..Len(ents[i]) : ~StartsWith(ents[i][k][1], OptPrefix)

\* C4 as stated: with all rule tables empty and threshold 0, the passes of
\* main leave every record with the same fields and values, and the
\* collection with the same records in the same order.
C4_RoundTrip == (plan = <<>> /\ err = "none") => SameCollection(entries, input)

\* C4 amended: with all rule tables empty and threshold 0, and no record
\* having a field whose name starts with 'opt', the passes of main leave
\* every record with the same fields and values and the collection with the
\* same records in the same order, at every point of the run.
C4_RoundTripNoShadow == NoShadowField(input) => SameCollection(entries, input)

C4_Witness ==
    /\ plan = <<>>
    /\ err = "none"
    /\ last = "applyEtAlTreshold"
    /\ Len(input) = 2
    /\ NoShadowField(input)
    /\ Has(input[1], K_author)
    /\ Has(input[2], K_booktitle)
    /\ warnings # <<>>
    /\ SameCollection(entries, input)

====
